---- MODULE Spec2Model ----
(***************************************************************************)
(* Job reconciliation engine of the stroke-seg serving service: the three  *)
(* job monitors (training, inference, evaluation) polling the scheduler    *)
(* and reconciling the jobs / training / inference / evaluation / model    *)
(* tables, together with the submission requests that create the rows.    *)
(***************************************************************************)
EXTENDS Integers, Sequences, FiniteSets, TLC

(***************************************************************************)
(* Bounds                                                                  *)
(***************************************************************************)
\* number of job rows that submissions may create
MaxJobs == 2
\* the scheduler reports timestamps 1..MaxTime
MaxTime == 1
\* number of job rows submitted while the polling loops are followed (SpecLoop)
MaxLoopJobs == 1

JobIds == 1..MaxJobs
Times == 1..MaxTime

\* datetime.now() at a scheduler query: an instant that is none of the
\* timestamps the scheduler reports
Now == MaxTime + 1

(***************************************************************************)
(* Python None: NoTime for an absent datetime, None for an absent string   *)
(***************************************************************************)
NoTime == 0
None == "<None>"

\* Python truthiness of an optional string
Truthy(s) == s # None /\ s # ""

(***************************************************************************)
(* slurm_parser.py: pure functions over the parsed scontrol key/values     *)
(***************************************************************************)
extract_job_state(job_info) == job_info.JobState

extract_exit_code(job_info) == job_info.ExitCode

extract_job_reason(job_info) == job_info.Reason

is_job_successful(job_info) ==
    LET exit_code == extract_exit_code(job_info)
    IN  IF Truthy(exit_code) THEN exit_code = "0:0" ELSE FALSE

is_job_finished(slurm_state) ==
    slurm_state \in {"COMPLETED", "FAILED", "CANCELLED", "TIMEOUT",
                     "OUT_OF_MEMORY", "NODE_FAIL", "NOT_FOUND"}

\* "; ".join(parts)
RECURSIVE Join(_)
Join(parts) ==
    IF Len(parts) = 0 THEN ""
    ELSE IF Len(parts) = 1 THEN parts[1]
    ELSE parts[1] \o "; " \o Join(Tail(parts))

extract_error_message(job_info) ==
    LET job_state == extract_job_state(job_info)
        exit_code == extract_exit_code(job_info)
        reason    == extract_job_reason(job_info)
        p1 == IF Truthy(job_state) THEN <<"Job state: " \o job_state>> ELSE <<>>
        p2 == IF Truthy(exit_code) /\ exit_code # "0:0"
              THEN <<"Exit code: " \o exit_code>> ELSE <<>>
        p3 == IF Truthy(reason) /\ reason \notin {"None", "(null)", "N/A"}
              THEN <<"Reason: " \o reason>> ELSE <<>>
        p4 == IF job_state = "CANCELLED" THEN <<"Job was cancelled">>
              ELSE IF job_state = "TIMEOUT" THEN <<"Job exceeded time limit">>
              ELSE IF job_state = "OUT_OF_MEMORY" THEN <<"Job ran out of memory">>
              ELSE IF job_state = "NODE_FAIL" THEN <<"Node failure occurred">>
              ELSE IF job_state = "FAILED"
                   THEN IF Truthy(exit_code) /\ exit_code # "0:0"
                        THEN <<"Job failed with non-zero exit code">>
                        ELSE <<"Job failed">>
              ELSE <<>>
        error_parts == p1 \o p2 \o p3 \o p4
    IN  IF ~is_job_finished(IF job_state = None THEN "" ELSE job_state)
           \/ is_job_successful(job_info)
        THEN None
        ELSE IF Len(error_parts) > 0 THEN Join(error_parts)
        ELSE "Job failed with state: " \o job_state

\* variant: a state outside the table is taken for a job still pending
map_slurm_state_to_job_status_default_pending(slurm_state) ==
    CASE slurm_state = "PENDING"       -> "PENDING"
      [] slurm_state = "RUNNING"       -> "RUNNING"
      [] slurm_state = "COMPLETED"     -> "COMPLETED"
      [] slurm_state = "FAILED"        -> "FAILED"
      [] slurm_state = "CANCELLED"     -> "FAILED"
      [] slurm_state = "TIMEOUT"       -> "FAILED"
      [] slurm_state = "OUT_OF_MEMORY" -> "FAILED"
      [] slurm_state = "NODE_FAIL"     -> "FAILED"
      [] slurm_state = "PREEMPTED"     -> "FAILED"
      [] slurm_state = "SUSPENDED"     -> "RUNNING"
      [] slurm_state = "NOT_FOUND"     -> "COMPLETED"
      [] OTHER                         -> "PENDING"

map_slurm_state_to_job_status(slurm_state) ==
    CASE slurm_state = "PENDING"       -> "PENDING"
      [] slurm_state = "RUNNING"       -> "RUNNING"
      [] slurm_state = "COMPLETED"     -> "COMPLETED"
      [] slurm_state = "FAILED"        -> "FAILED"
      [] slurm_state = "CANCELLED"     -> "FAILED"
      [] slurm_state = "TIMEOUT"       -> "FAILED"
      [] slurm_state = "OUT_OF_MEMORY" -> "FAILED"
      [] slurm_state = "NODE_FAIL"     -> "FAILED"
      [] slurm_state = "PREEMPTED"     -> "FAILED"
      [] slurm_state = "SUSPENDED"     -> "RUNNING"
      [] slurm_state = "NOT_FOUND"     -> "COMPLETED"
      [] OTHER                         -> "FAILED"

extract_job_summary(job_info) ==
    LET job_state == IF extract_job_state(job_info) = None
                     THEN "" ELSE extract_job_state(job_info)
        internal_status == map_slurm_state_to_job_status(job_state)
    IN  [state           |-> job_state,
         internal_status |-> internal_status,
         start_time      |-> job_info.StartTime,
         end_time        |-> job_info.EndTime,
         exit_code       |-> extract_exit_code(job_info),
         reason          |-> extract_job_reason(job_info),
         is_finished     |-> is_job_finished(job_state),
         error_message   |-> IF internal_status = "FAILED"
                             THEN extract_error_message(job_info) ELSE None]

valid_transitions(current_status) ==
    CASE current_status = "PENDING"   -> {"RUNNING", "FAILED"}
      [] current_status = "RUNNING"   -> {"COMPLETED", "FAILED"}
      [] current_status = "COMPLETED" -> {}
      [] current_status = "FAILED"    -> {}
      [] OTHER                        -> {}

\* variant: a job may be taken to COMPLETED from any status
is_valid_state_transition_completes(current_status, new_status) ==
    IF current_status = new_status THEN TRUE
    ELSE new_status \in valid_transitions(current_status) \cup {"COMPLETED"}

is_valid_state_transition(current_status, new_status) ==
    IF current_status = new_status THEN TRUE
    ELSE new_status \in valid_transitions(current_status)

\* variant: every status is monitored
should_monitor_job_status_all(job_status) ==
    job_status \in {"PENDING", "RUNNING", "COMPLETED", "FAILED"}

should_monitor_job_status(job_status) == job_status \in {"PENDING", "RUNNING"}

(***************************************************************************)
(* slurm_client.py                                                         *)
(***************************************************************************)
\* summary of a job the scheduler no longer knows; current_time is
\* datetime.now() at the query
_create_completed_job_summary(current_time) ==
    [state           |-> "NOT_FOUND",
     internal_status |-> "COMPLETED",
     start_time      |-> NoTime,
     end_time        |-> current_time,
     exit_code       |-> "0:0",
     reason          |-> "Job completed and removed from SLURM queue",
     is_finished     |-> TRUE,
     error_message   |-> None]

\* cmd is the outcome of running `scontrol show job <id>`: cmd.raised is a
\* command that could not be run or parsed, cmd.return_code its exit status,
\* cmd.out the parsed key/values of its stdout
get_job_info(cmd, current_time) ==
    IF cmd.return_code = 0
    THEN extract_job_summary(cmd.out)
    ELSE _create_completed_job_summary(current_time)

(***************************************************************************)
(* Record store (dao/): tables are functions from primary key to row.  A   *)
(* sibling row (training / inference / evaluation) is keyed by the id of   *)
(* the job it references, one row per submission.  The model table is a    *)
(* sequence of rows, one per insert.                                       *)
(***************************************************************************)
VARIABLES
    jobs,              \* jobs table: id -> [job_type, status, start_time, end_time, error_message]
    training,          \* training table: job id -> [name, status, end_time]
    inference,         \* inference table: job id -> [status, end_time, error_message]
    evaluation,        \* evaluation table: job id -> [status, end_time, error_message]
    model,             \* model table: sequence of [training_id, model_name, created_at]
    running,           \* the monitor whose tick is executing on the event loop, or "none"
    monitorable_jobs,  \* job snapshots the executing tick still has to process
    last,              \* the _update_job_status call that has just returned, if any
    applied,           \* SpecReplay: monitor, job snapshot and job info of a handler call
    loop,              \* SpecLoop: the monitors' polling tasks and the DB connection
    io                 \* SpecFunctions: the function just called, its input and its output

store == [jobs |-> jobs, training |-> training, inference |-> inference,
          evaluation |-> evaluation, model |-> model]

vars == <<jobs, training, inference, evaluation, model, running, monitorable_jobs, last,
          applied, loop, io>>

Monitors == {"TRAINING", "INFERENCE", "EVALUATION"}

\* **kwargs: a function from the column names given to their values
Kw(cond, column, value) == IF cond THEN column :> value ELSE <<>>

\* XxxDAO.update(id, **kwargs): the row with the columns of kwargs replaced;
\* a missing row (DoesNotExist) leaves the table as it is and returns None
dao_update(table, id, kwargs) ==
    IF id \in DOMAIN table THEN [table EXCEPT ![id] = kwargs @@ @] ELSE table

\* EvaluationDAO.get_by_job_id(job_uuid): TRUE when a sibling row references
\* the job
get_by_job_id(table, job_id) == job_id \in DOMAIN table

\* the lookups the training and prediction monitors call on their own DAOs:
\* the sibling row by the id of its job
TrainingDAO_get_by_job_id(table, job_id) == job_id \in DOMAIN table

InferenceDAO_get_by_job_id(table, job_id) == job_id \in DOMAIN table

\* JobDAO.get_active_jobs(): the rows with status PENDING or RUNNING
get_active_jobs(jobs_table) ==
    {id \in DOMAIN jobs_table : jobs_table[id].status \in {"PENDING", "RUNNING"}}

\* ModelDAO.get_by_training_id
get_by_training_id(model_table, training_id) ==
    {i \in DOMAIN model_table : model_table[i].training_id = training_id}

TrainingName(id) == "seg-" \o ToString(id)

\* a JobRecord as read by a monitor: the row together with its id
Snapshot(jobs_table, id) == [id |-> id] @@ jobs_table[id]

(***************************************************************************)
(* Outcome of a handler.  A handler that runs inside database.atomic()     *)
(* commits what it wrote when the block is left by a return and rolls      *)
(* everything back when the block is left by an exception.  fault names    *)
(* the store call that raises ("none": no call raises).                    *)
(***************************************************************************)
Faults == {"none", "job_update", "get_by_job_id", "sibling_update", "model_create"}

Result(S, success) == [store |-> S, success |-> success]

(***************************************************************************)
(* training_job_monitor.py                                                 *)
(***************************************************************************)
\* variant: a timestamp the scheduler reports is written whether or not the
\* row already has one
job_update_data_overwrite(job, job_info, status, with_error) ==
    ("status" :> status)
    @@ Kw(job_info.start_time # NoTime, "start_time", job_info.start_time)
    @@ Kw(job_info.end_time # NoTime, "end_time", job_info.end_time)
    @@ Kw(with_error /\ Truthy(job_info.error_message),
          "error_message", job_info.error_message)

\* variant: the kwargs start empty, the status is not among them
job_update_data_no_status(job, job_info, status, with_error) ==
    Kw(job_info.start_time # NoTime /\ job.start_time = NoTime,
       "start_time", job_info.start_time)
    @@ Kw(job_info.end_time # NoTime /\ job.end_time = NoTime,
          "end_time", job_info.end_time)
    @@ Kw(with_error /\ Truthy(job_info.error_message),
          "error_message", job_info.error_message)

\* the kwargs every handler builds for the jobs row
job_update_data(job, job_info, status, with_error) ==
    ("status" :> status)
    @@ Kw(job_info.start_time # NoTime /\ job.start_time = NoTime,
          "start_time", job_info.start_time)
    @@ Kw(job_info.end_time # NoTime /\ job.end_time = NoTime,
          "end_time", job_info.end_time)
    @@ Kw(with_error /\ Truthy(job_info.error_message),
          "error_message", job_info.error_message)

\* variant: a Model insert that raises leaves the Job and Training writes in place
_handle_training_completion_no_rollback(S, job, job_info, current_time, fault) ==
    LET end_time == job_info.end_time
        S1 == [S EXCEPT !.jobs =
                 dao_update(@, job.id, job_update_data(job, job_info, "COMPLETED", FALSE))]
        training_update_data ==
            ("status" :> "TRAINED") @@ Kw(end_time # NoTime, "end_time", end_time)
        S2 == [S1 EXCEPT !.training = dao_update(@, job.id, training_update_data)]
        model_record ==
            [training_id |-> job.id,
             model_name  |-> S1.training[job.id].name \o "_model",
             created_at  |-> IF end_time # NoTime THEN end_time ELSE current_time]
        S3 == [S2 EXCEPT !.model = Append(@, model_record)]
    IN  IF fault = "job_update" THEN Result(S, FALSE)
        ELSE IF job.id \notin DOMAIN S.jobs THEN Result(S1, FALSE)
        ELSE IF fault = "get_by_job_id" THEN Result(S, FALSE)
        ELSE IF ~TrainingDAO_get_by_job_id(S1.training, job.id) THEN Result(S1, FALSE)
        ELSE IF fault = "sibling_update" THEN Result(S, FALSE)
        ELSE IF fault = "model_create" THEN Result(S2, FALSE)
        ELSE Result(S3, TRUE)

\* one database.atomic() block: Job <- COMPLETED, Training <- TRAINED, Model insert
_handle_training_completion(S, job, job_info, current_time, fault) ==
    LET end_time == job_info.end_time
        S1 == [S EXCEPT !.jobs =
                 dao_update(@, job.id, job_update_data(job, job_info, "COMPLETED", FALSE))]
        training_update_data ==
            ("status" :> "TRAINED") @@ Kw(end_time # NoTime, "end_time", end_time)
        S2 == [S1 EXCEPT !.training = dao_update(@, job.id, training_update_data)]
        model_record ==
            [training_id |-> job.id,
             model_name  |-> S1.training[job.id].name \o "_model",
             created_at  |-> IF end_time # NoTime THEN end_time ELSE current_time]
        S3 == [S2 EXCEPT !.model = Append(@, model_record)]
    IN  IF fault = "job_update" THEN Result(S, FALSE)
        ELSE IF job.id \notin DOMAIN S.jobs THEN Result(S1, FALSE)
        ELSE IF fault = "get_by_job_id" THEN Result(S, FALSE)
        ELSE IF ~TrainingDAO_get_by_job_id(S1.training, job.id) THEN Result(S1, FALSE)
        ELSE IF fault = "sibling_update" THEN Result(S, FALSE)
        ELSE IF fault = "model_create" THEN Result(S, FALSE)
        ELSE Result(S3, TRUE)

\* TrainingJobMonitor._handle_normal_update: the jobs row only, no transaction
Training_handle_normal_update(S, job, job_info, new_status, fault) ==
    LET update_data == job_update_data(job, job_info, new_status, new_status = "FAILED")
        S1 == [S EXCEPT !.jobs = dao_update(@, job.id, update_data)]
    IN  IF fault = "job_update" THEN Result(S, FALSE)
        ELSE IF job.id \notin DOMAIN S.jobs THEN Result(S1, FALSE)
        ELSE Result(S1, TRUE)

Training_handle_job_update(S, job, job_info, new_status, current_time, fault) ==
    IF new_status = "COMPLETED"
    THEN _handle_training_completion(S, job, job_info, current_time, fault)
    ELSE Training_handle_normal_update(S, job, job_info, new_status, fault)

(***************************************************************************)
(* prediction_job_monitor.py                                               *)
(***************************************************************************)
\* variant: the Inference is set to COMPLETED before the block is entered
_handle_prediction_completion_sibling_first(S, job, job_info, fault) ==
    LET end_time == job_info.end_time
        inference_update_data ==
            ("status" :> "COMPLETED") @@ Kw(end_time # NoTime, "end_time", end_time)
        S0 == [S EXCEPT !.inference = dao_update(@, job.id, inference_update_data)]
        S1 == [S0 EXCEPT !.jobs =
                 dao_update(@, job.id, job_update_data(job, job_info, "COMPLETED", FALSE))]
    IN  IF fault = "job_update" THEN Result(S0, FALSE)
        ELSE IF job.id \notin DOMAIN S.jobs THEN Result(S1, FALSE)
        ELSE IF fault = "get_by_job_id" THEN Result(S0, FALSE)
        ELSE IF ~InferenceDAO_get_by_job_id(S1.inference, job.id) THEN Result(S1, FALSE)
        ELSE IF fault = "sibling_update" THEN Result(S0, FALSE)
        ELSE Result(S1, TRUE)

\* one database.atomic() block: Job <- COMPLETED, Inference <- COMPLETED
_handle_prediction_completion(S, job, job_info, fault) ==
    LET end_time == job_info.end_time
        S1 == [S EXCEPT !.jobs =
                 dao_update(@, job.id, job_update_data(job, job_info, "COMPLETED", FALSE))]
        inference_update_data ==
            ("status" :> "COMPLETED") @@ Kw(end_time # NoTime, "end_time", end_time)
        S2 == [S1 EXCEPT !.inference = dao_update(@, job.id, inference_update_data)]
    IN  IF fault = "job_update" THEN Result(S, FALSE)
        ELSE IF job.id \notin DOMAIN S.jobs THEN Result(S1, FALSE)
        ELSE IF fault = "get_by_job_id" THEN Result(S, FALSE)
        ELSE IF ~InferenceDAO_get_by_job_id(S1.inference, job.id) THEN Result(S1, FALSE)
        ELSE IF fault = "sibling_update" THEN Result(S, FALSE)
        ELSE Result(S2, TRUE)

\* one database.atomic() block: Job <- FAILED, Inference <- FAILED
_handle_prediction_failure(S, job, job_info, fault) ==
    LET end_time == job_info.end_time
        error_message == job_info.error_message
        S1 == [S EXCEPT !.jobs =
                 dao_update(@, job.id, job_update_data(job, job_info, "FAILED", TRUE))]
        inference_update_data ==
            ("status" :> "FAILED")
            @@ Kw(end_time # NoTime, "end_time", end_time)
            @@ Kw(Truthy(error_message), "error_message", error_message)
        S2 == [S1 EXCEPT !.inference = dao_update(@, job.id, inference_update_data)]
    IN  IF fault = "job_update" THEN Result(S, FALSE)
        ELSE IF job.id \notin DOMAIN S.jobs THEN Result(S1, FALSE)
        ELSE IF fault = "get_by_job_id" THEN Result(S, FALSE)
        ELSE IF ~InferenceDAO_get_by_job_id(S1.inference, job.id) THEN Result(S1, FALSE)
        ELSE IF fault = "sibling_update" THEN Result(S, FALSE)
        ELSE Result(S2, TRUE)

\* PredictionJobMonitor._handle_normal_update: the jobs row only
Prediction_handle_normal_update(S, job, job_info, new_status, fault) ==
    LET update_data == job_update_data(job, job_info, new_status, new_status = "FAILED")
        S1 == [S EXCEPT !.jobs = dao_update(@, job.id, update_data)]
    IN  IF fault = "job_update" THEN Result(S, FALSE)
        ELSE IF job.id \notin DOMAIN S.jobs THEN Result(S1, FALSE)
        ELSE Result(S1, TRUE)

Prediction_handle_job_update(S, job, job_info, new_status, fault) ==
    IF new_status = "COMPLETED" THEN _handle_prediction_completion(S, job, job_info, fault)
    ELSE IF new_status = "FAILED" THEN _handle_prediction_failure(S, job, job_info, fault)
    ELSE Prediction_handle_normal_update(S, job, job_info, new_status, fault)

(***************************************************************************)
(* evaluation_job_monitor.py                                               *)
(***************************************************************************)
\* one database.atomic() block: Job <- COMPLETED, Evaluation <- COMPLETED
_handle_evaluation_completion(S, job, job_info, fault) ==
    LET end_time == job_info.end_time
        S1 == [S EXCEPT !.jobs =
                 dao_update(@, job.id, job_update_data(job, job_info, "COMPLETED", FALSE))]
        evaluation_update_data ==
            ("status" :> "COMPLETED") @@ Kw(end_time # NoTime, "end_time", end_time)
        S2 == [S1 EXCEPT !.evaluation = dao_update(@, job.id, evaluation_update_data)]
    IN  IF fault = "job_update" THEN Result(S, FALSE)
        ELSE IF job.id \notin DOMAIN S.jobs THEN Result(S1, FALSE)
        ELSE IF fault = "get_by_job_id" THEN Result(S, FALSE)
        ELSE IF ~get_by_job_id(S1.evaluation, job.id) THEN Result(S1, FALSE)
        ELSE IF fault = "sibling_update" THEN Result(S, FALSE)
        ELSE Result(S2, TRUE)

\* variant: the Evaluation row is given the status but not the error
_handle_evaluation_failure_no_error(S, job, job_info, fault) ==
    LET end_time == job_info.end_time
        S1 == [S EXCEPT !.jobs =
                 dao_update(@, job.id, job_update_data(job, job_info, "FAILED", TRUE))]
        evaluation_update_data ==
            ("status" :> "FAILED") @@ Kw(end_time # NoTime, "end_time", end_time)
        S2 == [S1 EXCEPT !.evaluation = dao_update(@, job.id, evaluation_update_data)]
    IN  IF fault = "job_update" THEN Result(S, FALSE)
        ELSE IF job.id \notin DOMAIN S.jobs THEN Result(S1, FALSE)
        ELSE IF fault = "get_by_job_id" THEN Result(S, FALSE)
        ELSE IF ~get_by_job_id(S1.evaluation, job.id) THEN Result(S1, FALSE)
        ELSE IF fault = "sibling_update" THEN Result(S, FALSE)
        ELSE Result(S2, TRUE)

\* one database.atomic() block: Job <- FAILED, Evaluation <- FAILED
_handle_evaluation_failure(S, job, job_info, fault) ==
    LET end_time == job_info.end_time
        error_message == job_info.error_message
        S1 == [S EXCEPT !.jobs =
                 dao_update(@, job.id, job_update_data(job, job_info, "FAILED", TRUE))]
        evaluation_update_data ==
            ("status" :> "FAILED")
            @@ Kw(end_time # NoTime, "end_time", end_time)
            @@ Kw(Truthy(error_message), "error_message", error_message)
        S2 == [S1 EXCEPT !.evaluation = dao_update(@, job.id, evaluation_update_data)]
    IN  IF fault = "job_update" THEN Result(S, FALSE)
        ELSE IF job.id \notin DOMAIN S.jobs THEN Result(S1, FALSE)
        ELSE IF fault = "get_by_job_id" THEN Result(S, FALSE)
        ELSE IF ~get_by_job_id(S1.evaluation, job.id) THEN Result(S1, FALSE)
        ELSE IF fault = "sibling_update" THEN Result(S, FALSE)
        ELSE Result(S2, TRUE)

\* EvaluationJobMonitor._handle_normal_update: the jobs row, then, for RUNNING,
\* Evaluation <- EVALUATING; each statement commits by itself
Evaluation_handle_normal_update(S, job, job_info, new_status, fault) ==
    LET update_data == job_update_data(job, job_info, new_status, FALSE)
        S1 == [S EXCEPT !.jobs = dao_update(@, job.id, update_data)]
        S2 == [S1 EXCEPT !.evaluation = dao_update(@, job.id, "status" :> "EVALUATING")]
    IN  IF fault = "job_update" THEN Result(S, FALSE)
        ELSE IF job.id \notin DOMAIN S.jobs THEN Result(S1, FALSE)
        ELSE IF new_status # "RUNNING" THEN Result(S1, TRUE)
        ELSE IF fault = "get_by_job_id" THEN Result(S1, FALSE)
        ELSE IF ~get_by_job_id(S1.evaluation, job.id) THEN Result(S1, TRUE)
        ELSE IF fault = "sibling_update" THEN Result(S1, FALSE)
        ELSE Result(S2, TRUE)

Evaluation_handle_job_update(S, job, job_info, new_status, fault) ==
    IF new_status = "COMPLETED" THEN _handle_evaluation_completion(S, job, job_info, fault)
    ELSE IF new_status = "FAILED" THEN _handle_evaluation_failure(S, job, job_info, fault)
    ELSE Evaluation_handle_normal_update(S, job, job_info, new_status, fault)

(***************************************************************************)
(* What the scheduler command may answer.  A job that has not failed is    *)
(* reported with ExitCode=0:0 and Reason=None.                             *)
(***************************************************************************)
JobStates == {"PENDING", "RUNNING", "COMPLETED", "FAILED", "PREEMPTED"}
ExitCodes == {"0:0", "1:0"}
Reasons == {"None"}

ScontrolOutputs ==
    {o \in [JobState : JobStates, ExitCode : ExitCodes, Reason : Reasons,
            StartTime : {NoTime} \cup Times, EndTime : {NoTime} \cup Times] :
        o.JobState # "FAILED" => o.ExitCode = "0:0"}

NoOutput == [JobState |-> None, ExitCode |-> None, Reason |-> None,
             StartTime |-> NoTime, EndTime |-> NoTime]

\* exit status 0 with parsed output, a non-zero exit status, or a command that
\* could not be run (missing, timed out, unparsable output)
Commands ==
    {[raised |-> FALSE, return_code |-> 0, out |-> o] : o \in ScontrolOutputs}
    \cup {[raised |-> FALSE, return_code |-> 1, out |-> NoOutput],
          [raised |-> TRUE, return_code |-> 0, out |-> NoOutput]}

\* what is remembered of a call of _update_job_status: the job's id and stored
\* status, the status mapped from the scheduler's answer, whether the scheduler
\* no longer knew the job, the timestamps of the row and of the answer, and how
\* the call ended
Call(job, job_info, outcome) ==
    [id |-> job.id, current_status |-> job.status,
     new_status |-> job_info.internal_status,
     not_found |-> job_info.state = "NOT_FOUND", outcome |-> outcome, skipped |-> 0,
     job_start_time |-> job.start_time, job_end_time |-> job.end_time,
     start_time |-> job_info.start_time, end_time |-> job_info.end_time]

NoCall == [id |-> 0, current_status |-> None, new_status |-> None, not_found |-> FALSE,
           outcome |-> "none", skipped |-> 0,
           job_start_time |-> NoTime, job_end_time |-> NoTime,
           start_time |-> NoTime, end_time |-> NoTime]

\* what is remembered of the start of a tick: how many candidates the
\* monitorable filter skipped
Polled(skipped) == [NoCall EXCEPT !.outcome = "polled", !.skipped = skipped]

NoInfo == [state |-> None, internal_status |-> None, start_time |-> NoTime,
           end_time |-> NoTime, exit_code |-> None, reason |-> None,
           is_finished |-> FALSE, error_message |-> None]

\* SpecReplay only: the handler call to be repeated
NoApply == [m |-> "none"]

\* no function was called on its own
NoIo == [op |-> "none"]

\* no call of the manager, the facade or start() was made or ended in a step
NoOp ==
    [name |-> "none", who |-> "none", created |-> "none", ended |-> "none",
     input |-> "none"]

\* a call and its outcome
Op(name, who, created, ended) ==
    [name |-> name, who |-> who, created |-> created, ended |-> ended,
     input |-> "none"]

\* the monitors as constructed: no polling task, _running False; the poller
\* thread has no DB connection yet.  ticker, attempts, tick_error and
\* recovered describe the tick a step belongs to: its monitor, the connect()
\* calls made at its start, the DB call that raised in it ("connect": in
\* _ensure_database_connection, "store": a query or an update), and whether
\* a reconnect followed that error.  manager is the JobMonitorManager: its
\* _running flag, the call in progress (op), the monitor coroutines of its
\* gather that have not run yet (pending) and whether one of them raised.
\* thread, main and shutdown are the host facade: its thread, the position of
\* _async_poller_main and the _shutdown_event.  call describes the call a
\* step made or ended: its name, its monitor, what it created, how it ended,
\* and for the health endpoint its input and its answer
NoLoop ==
    [conn       |-> "closed",
     _running   |-> [m \in Monitors |-> FALSE],
     task       |-> [m \in Monitors |-> "none"],
     stopping   |-> [m \in Monitors |-> FALSE],
     replaced   |-> [m \in Monitors |-> "none"],
     ticker     |-> "none",
     attempts   |-> 0,
     tick_error |-> "none",
     recovered  |-> FALSE,
     manager    |-> [_running |-> FALSE, op |-> "idle", pending |-> {},
                     failed |-> FALSE],
     thread     |-> "none",
     main       |-> "none",
     shutdown   |-> FALSE,
     call       |-> NoOp]

(***************************************************************************)
(* State after construction: empty tables, no tick in progress             *)
(***************************************************************************)
Init ==
    /\ jobs = <<>>
    /\ training = <<>>
    /\ inference = <<>>
    /\ evaluation = <<>>
    /\ model = <<>>
    /\ running = "none"
    /\ monitorable_jobs = {}
    /\ last = NoCall
    /\ applied = NoApply
    /\ loop = NoLoop
    /\ io = NoIo

(***************************************************************************)
(* bl/: the submission requests.  The Job row is inserted first, then the  *)
(* sibling row, each insert committing by itself; sibling_created = FALSE  *)
(* is a sibling insert that raises.                                        *)
(***************************************************************************)
JobRecord(job_type) ==
    [job_type |-> job_type, status |-> "PENDING", start_time |-> NoTime,
     end_time |-> NoTime, error_message |-> None]

NextJobId == Cardinality(DOMAIN jobs) + 1

train_model(sibling_created) ==
    /\ NextJobId <= MaxJobs
    /\ jobs' = (NextJobId :> JobRecord("TRAINING")) @@ jobs
    /\ training' = IF sibling_created
                   THEN (NextJobId :> [name |-> TrainingName(NextJobId),
                                       status |-> "TRAINING",
                                       end_time |-> NoTime]) @@ training
                   ELSE training
    /\ last' = NoCall
    /\ UNCHANGED <<inference, evaluation, model, running, monitorable_jobs, applied, loop, io>>

make_prediction(sibling_created) ==
    /\ NextJobId <= MaxJobs
    /\ Len(model) > 0
    /\ jobs' = (NextJobId :> JobRecord("INFERENCE")) @@ jobs
    /\ inference' = IF sibling_created
                    THEN (NextJobId :> [status |-> "PENDING", end_time |-> NoTime,
                                        error_message |-> None]) @@ inference
                    ELSE inference
    /\ last' = NoCall
    /\ UNCHANGED <<training, evaluation, model, running, monitorable_jobs, applied, loop, io>>

run_evaluation(sibling_created) ==
    /\ NextJobId <= MaxJobs
    /\ Len(model) > 0
    /\ jobs' = (NextJobId :> JobRecord("EVALUATION")) @@ jobs
    /\ evaluation' = IF sibling_created
                     THEN (NextJobId :> [status |-> "PENDING", end_time |-> NoTime,
                                         error_message |-> None]) @@ evaluation
                     ELSE evaluation
    /\ last' = NoCall
    /\ UNCHANGED <<training, inference, model, running, monitorable_jobs, applied, loop, io>>

(***************************************************************************)
(* base_job_monitor.py                                                     *)
(***************************************************************************)
\* variant: the active jobs are not filtered by kind
_get_jobs_to_monitor_any_kind(m, jobs_table) == get_active_jobs(jobs_table)

\* XxxJobMonitor._get_jobs_to_monitor: the active jobs of the monitor's kind
_get_jobs_to_monitor(m, jobs_table) ==
    {id \in get_active_jobs(jobs_table) : jobs_table[id].job_type = m}

\* variant: only a new start time counts
_should_update_timestamps_start_only(job, start_time, end_time) ==
    start_time # NoTime /\ job.start_time = NoTime

_should_update_timestamps(job, start_time, end_time) ==
    \/ start_time # NoTime /\ job.start_time = NoTime
    \/ end_time # NoTime /\ job.end_time = NoTime

\* dispatch to the monitor's own _handle_job_update
_handle_job_update(m, S, job, job_info, new_status, current_time, fault) ==
    IF m = "TRAINING"
    THEN Training_handle_job_update(S, job, job_info, new_status, current_time, fault)
    ELSE IF m = "INFERENCE"
    THEN Prediction_handle_job_update(S, job, job_info, new_status, fault)
    ELSE Evaluation_handle_job_update(S, job, job_info, new_status, fault)

\* the filter of _poll_active_jobs over the candidates
monitorable(jobs_to_monitor) ==
    {job \in jobs_to_monitor : should_monitor_job_status(job.status)}

\* first half of _poll_active_jobs, handed the candidates ids: read their
\* rows, keep the monitorable ones.  With nothing to poll the tick returns at
\* once.
PollActiveJobs(m, ids) ==
    /\ running = "none"
    /\ LET jobs_to_monitor == {Snapshot(jobs, id) : id \in ids}
       IN  /\ monitorable_jobs' = monitorable(jobs_to_monitor)
           /\ running' = IF monitorable(jobs_to_monitor) = {} THEN "none" ELSE m
           /\ last' = Polled(Cardinality(jobs_to_monitor)
                             - Cardinality(monitorable(jobs_to_monitor)))
    /\ UNCHANGED <<jobs, training, inference, evaluation, model>>

\* a tick of monitor m: the candidates are _get_jobs_to_monitor()
_poll_active_jobs(m) ==
    PollActiveJobs(m, _get_jobs_to_monitor(m, jobs)) /\ UNCHANGED <<applied, loop, io>>

\* scheduler summary of every command outcome
JobInfoOf == [cmd \in Commands |-> IF cmd.raised THEN NoInfo ELSE get_job_info(cmd, Now)]

\* the decision of _update_job_status: the summary was obtained, the
\* transition is legal and the status or a timestamp is new
must_update(job, cmd) ==
    LET job_info == JobInfoOf[cmd]
    IN  /\ ~cmd.raised
        /\ is_valid_state_transition(job.status, job_info.internal_status)
        /\ \/ job.status # job_info.internal_status
           \/ _should_update_timestamps(job, job_info.start_time, job_info.end_time)

\* variant: an error raised for one job ends the tick
UpdateJobStatus_abort(m, job, cmd, fault) ==
    /\ running = m
    /\ job \in monitorable_jobs
    /\ LET job_info == JobInfoOf[cmd]
           current_status == job.status
           new_status == job_info.internal_status
           res == _handle_job_update(m, store, job, job_info, new_status, Now, fault)
           Unchanged == UNCHANGED <<jobs, training, inference, evaluation, model>>
           Rest == IF cmd.raised THEN {} ELSE monitorable_jobs \ {job}
       IN  /\ IF cmd.raised
              THEN /\ Unchanged
                   /\ last' = Call(job, job_info, "raised")
              ELSE IF ~is_valid_state_transition(current_status, new_status)
              THEN /\ Unchanged
                   /\ last' = Call(job, job_info, "invalid")
              ELSE IF must_update(job, cmd)
              THEN /\ jobs' = res.store.jobs
                   /\ training' = res.store.training
                   /\ inference' = res.store.inference
                   /\ evaluation' = res.store.evaluation
                   /\ model' = res.store.model
                   /\ last' = Call(job, job_info, IF res.success THEN "ok" ELSE "failed")
              ELSE /\ Unchanged
                   /\ last' = Call(job, job_info, "noop")
           /\ monitorable_jobs' = Rest
           /\ running' = IF Rest = {} THEN "none" ELSE m

\* one iteration of the loop over monitorable_jobs: _update_job_status(job),
\* the scheduler command answering cmd and the store failing at fault
UpdateJobStatus(m, job, cmd, fault) ==
    /\ running = m
    /\ job \in monitorable_jobs
    /\ LET job_info == JobInfoOf[cmd]
           current_status == job.status
           new_status == job_info.internal_status
           res == _handle_job_update(m, store, job, job_info, new_status, Now, fault)
           Unchanged == UNCHANGED <<jobs, training, inference, evaluation, model>>
       IN  IF cmd.raised
           THEN /\ Unchanged
                /\ last' = Call(job, job_info, "raised")
           ELSE IF ~is_valid_state_transition(current_status, new_status)
           THEN /\ Unchanged
                /\ last' = Call(job, job_info, "invalid")
           ELSE IF must_update(job, cmd)
           THEN /\ jobs' = res.store.jobs
                /\ training' = res.store.training
                /\ inference' = res.store.inference
                /\ evaluation' = res.store.evaluation
                /\ model' = res.store.model
                /\ last' = Call(job, job_info, IF res.success THEN "ok" ELSE "failed")
           ELSE /\ Unchanged
                /\ last' = Call(job, job_info, "noop")
    /\ monitorable_jobs' = monitorable_jobs \ {job}
    /\ running' = IF monitorable_jobs \ {job} = {} THEN "none" ELSE m

\* a store call can only fail when the handler runs
FaultsOf(job, cmd) == IF must_update(job, cmd) THEN Faults ELSE {"none"}

_update_job_status ==
    \E job \in monitorable_jobs, cmd \in Commands :
        \E fault \in FaultsOf(job, cmd) :
            UpdateJobStatus(running, job, cmd, fault) /\ UNCHANGED <<applied, loop, io>>

Next ==
    \/ \E sibling_created \in BOOLEAN : train_model(sibling_created)
    \/ \E sibling_created \in BOOLEAN : make_prediction(sibling_created)
    \/ \E sibling_created \in BOOLEAN : run_evaluation(sibling_created)
    \/ \E m \in Monitors : _poll_active_jobs(m)
    \/ _update_job_status

Spec == Init /\ [][Next]_vars

\* _poll_loop runs a tick every poll_interval for as long as the monitor is
\* running, and a tick that has started processes each of its jobs: every
\* monitor's tick and the processing of the next job are taken again and again
SpecFair ==
    /\ Init
    /\ [][Next]_vars
    /\ \A m \in Monitors : WF_vars(_poll_active_jobs(m))
    /\ WF_vars(_update_job_status)

(***************************************************************************)
(* SpecStray: a tick may be handed a candidate list that still holds jobs  *)
(* in a terminal status (any jobs of the monitor's kind).                  *)
(***************************************************************************)
stray_candidates(m) ==
    \E ids \in SUBSET {id \in DOMAIN jobs : jobs[id].job_type = m} :
        /\ \E id \in ids : jobs[id].status \in {"COMPLETED", "FAILED"}
        /\ PollActiveJobs(m, ids)
        /\ UNCHANGED <<applied, loop, io>>

NextStray ==
    \/ Next
    \/ \E m \in Monitors : stray_candidates(m)

SpecStray == Init /\ [][NextStray]_vars

(***************************************************************************)
(* SpecReplay: a handler call that succeeded may be repeated at once with  *)
(* the same job snapshot and the same job info.                            *)
(***************************************************************************)
apply_first ==
    \E job \in monitorable_jobs, cmd \in Commands :
        /\ applied = NoApply
        /\ must_update(job, cmd)
        /\ UpdateJobStatus(running, job, cmd, "none")
        /\ last'.outcome = "ok"
        /\ applied' = [m |-> running, job |-> job, job_info |-> JobInfoOf[cmd]]
        /\ UNCHANGED <<loop, io>>

apply_again ==
    /\ applied # NoApply
    /\ LET res == _handle_job_update(applied.m, store, applied.job, applied.job_info,
                                     applied.job_info.internal_status, Now, "none")
       IN  /\ jobs' = res.store.jobs
           /\ training' = res.store.training
           /\ inference' = res.store.inference
           /\ evaluation' = res.store.evaluation
           /\ model' = res.store.model
           /\ last' = Call(applied.job, applied.job_info,
                           IF res.success THEN "replayed" ELSE "replay failed")
    /\ applied' = NoApply
    /\ UNCHANGED <<running, monitorable_jobs, loop, io>>

NextReplay ==
    \/ applied = NoApply /\ Next
    \/ apply_first
    \/ apply_again

SpecReplay == Init /\ [][NextReplay]_vars

(***************************************************************************)
(* SpecLoop: the polling loops of the three monitors on the poller         *)
(* thread's event loop, start() and stop(), and the thread's DB            *)
(* connection: "open", "broken" (not closed, but SELECT 1 raises) or       *)
(* "closed".  Requests are training submissions.                           *)
(***************************************************************************)
\* _ensure_database_connection on a connection in state conn; first is the
\* outcome of connect() in the try block, second of connect() in the except
\* block
_ensure_database_connection(conn, first, second) ==
    IF conn = "open"
    THEN [conn |-> "open", attempts |-> 0, raised |-> FALSE]
    ELSE IF conn = "closed"
    THEN IF first THEN [conn |-> "open", attempts |-> 1, raised |-> FALSE]
         ELSE IF second THEN [conn |-> "open", attempts |-> 2, raised |-> FALSE]
         ELSE [conn |-> "closed", attempts |-> 2, raised |-> TRUE]
    ELSE IF second THEN [conn |-> "open", attempts |-> 1, raised |-> FALSE]
         ELSE [conn |-> "closed", attempts |-> 1, raised |-> TRUE]

\* whether an error of the tick reaches the try block of _poll_loop:
\* _poll_active_jobs catches every Exception and does not re-raise
tick_raises(tick_error) == FALSE

\* variant: the tick ends the loop when it had an error
_poll_loop_next_dies(tick_error) == IF tick_error # "none" THEN "ended" ELSE "sleep"

\* where _poll_loop goes after a tick: asyncio.sleep, in the try block as in
\* the except block
_poll_loop_next(tick_error) == "sleep"

\* the except block of _poll_loop: a reconnect for a database / connection
\* error that reached it
_poll_loop_recovered(tick_error) == tick_raises(tick_error) /\ tick_error # "none"

\* a step between ticks that makes or ends the call `call`; what is
\* remembered of the latest tick is dropped
CallStep(new_loop, call) ==
    /\ loop' = [new_loop EXCEPT !.ticker = "none", !.attempts = 0,
                                !.tick_error = "none", !.recovered = FALSE,
                                !.call = call]
    /\ last' = NoCall
    /\ UNCHANGED <<jobs, training, inference, evaluation, model, running,
                   monitorable_jobs, applied, io>>

\* a step between ticks that is no call
LoopStep(new_loop) == CallStep(new_loop, NoOp)

\* variant: start() creates a polling task whether or not one is running
start_result_again(l, m, first, second) ==
    LET e == _ensure_database_connection(l.conn, first, second)
    IN  IF e.raised
        THEN [loop |-> [l EXCEPT !.conn = e.conn],
              call |-> Op("start", m, "none", "raised")]
        ELSE [loop |-> [l EXCEPT !.conn = e.conn, !._running[m] = TRUE,
                                 !.task[m] = "ready"],
              call |-> Op("start", m, "task", "returned")]

\* BaseJobMonitor.start() on the loop state l: a running monitor logs and
\* returns; otherwise the task is created when the connection is there
start_result(l, m, first, second) ==
    IF l._running[m]
    THEN [loop |-> l, call |-> Op("start", m, "none", "returned")]
    ELSE LET e == _ensure_database_connection(l.conn, first, second)
         IN  IF e.raised
             THEN [loop |-> [l EXCEPT !.conn = e.conn],
                   call |-> Op("start", m, "none", "raised")]
             ELSE [loop |-> [l EXCEPT !.conn = e.conn, !._running[m] = TRUE,
                                      !.task[m] = "ready"],
                   call |-> Op("start", m, "task", "returned")]

\* BaseJobMonitor.start() called on its own, outside a stop() of the monitor
start(m, first, second) ==
    /\ running = "none"
    /\ ~loop.stopping[m]
    /\ LET r == start_result(loop, m, first, second)
       IN  CallStep(r.loop, r.call)

\* one iteration of _poll_loop up to the loop over the monitorable jobs: the
\* task is scheduled or its sleep returns, _running is true,
\* _ensure_database_connection, then the candidates query (query_raises: the
\* query raises).  An error is caught by _poll_active_jobs and ends the tick.
poll_tick(m, first, second, query_raises) ==
    /\ running = "none"
    /\ loop._running[m]
    /\ loop.task[m] \in {"ready", "sleep"}
    /\ LET e == _ensure_database_connection(loop.conn, first, second)
           tick_error == IF e.raised THEN "connect"
                         ELSE IF query_raises THEN "store" ELSE "none"
           ticked == [loop EXCEPT !.conn = e.conn, !.ticker = m, !.call = NoOp,
                                  !.attempts = e.attempts, !.tick_error = tick_error,
                                  !.recovered = _poll_loop_recovered(tick_error)]
       IN  IF tick_error # "none"
           THEN /\ loop' = [ticked EXCEPT !.task[m] = _poll_loop_next(tick_error)]
                /\ last' = NoCall
                /\ UNCHANGED <<jobs, training, inference, evaluation, model, running,
                               monitorable_jobs>>
           ELSE /\ PollActiveJobs(m, _get_jobs_to_monitor(m, jobs))
                /\ loop' = [ticked EXCEPT !.task[m] = IF running' = "none"
                                                      THEN _poll_loop_next(tick_error)
                                                      ELSE "tick"]
    /\ UNCHANGED <<applied, io>>

\* the loop over the monitorable jobs, one job per step; the tick ends with
\* the last job
poll_update ==
    \E job \in monitorable_jobs, cmd \in Commands :
        \E fault \in FaultsOf(job, cmd) :
            /\ loop.task[running] = "tick"
            /\ UpdateJobStatus(running, job, cmd, fault)
            /\ LET new_status == JobInfoOf[cmd].internal_status
                   raised == /\ fault # "none"
                             /\ _handle_job_update(running, store, job, JobInfoOf[cmd],
                                                   new_status, Now, fault)
                                # _handle_job_update(running, store, job, JobInfoOf[cmd],
                                                     new_status, Now, "none")
                   tick_error == IF raised THEN "store" ELSE loop.tick_error
               IN  loop' = [loop EXCEPT
                              !.call = NoOp,
                              !.ticker = running,
                              !.attempts = 0,
                              !.tick_error = tick_error,
                              !.recovered = IF running' = "none"
                                            THEN _poll_loop_recovered(tick_error)
                                            ELSE FALSE,
                              !.task[running] = IF running' = "none"
                                                THEN _poll_loop_next(tick_error)
                                                ELSE "tick"]
            /\ UNCHANGED <<applied, io>>

\* a training submission while the loops run
loop_train_model(sibling_created) ==
    /\ Cardinality(DOMAIN jobs) < MaxLoopJobs
    /\ train_model(sibling_created)

\* variant: stop() runs while a tick is executing
stop_begin_mid_tick(m) ==
    /\ loop._running[m]
    /\ ~loop.stopping[m]
    /\ LoopStep([loop EXCEPT !._running[m] = FALSE, !.stopping[m] = TRUE])

\* stop() up to the wait for the task
stop_begin(m) ==
    /\ running = "none"
    /\ loop._running[m]
    /\ ~loop.stopping[m]
    /\ LoopStep([loop EXCEPT !._running[m] = FALSE, !.stopping[m] = TRUE])

\* the task of a stopped monitor ends: it is scheduled or its sleep returns
\* and `while self._running` is false, or the 5 s wait of stop() times out
\* and the task is cancelled in its sleep
task_ends(m) ==
    /\ running = "none"
    /\ loop.task[m] \in {"ready", "sleep"}
    /\ ~loop._running[m]
    /\ LoopStep([loop EXCEPT !.task[m] = "ended"])

\* variant: stop() returns without closing the connection
stop_end_keeps_connection(m) ==
    /\ running = "none"
    /\ loop.stopping[m]
    /\ loop.task[m] = "ended"
    /\ LoopStep([loop EXCEPT !.stopping[m] = FALSE])

\* stop() after the task has ended: the thread's connection is closed
stop_end(m) ==
    /\ running = "none"
    /\ loop.stopping[m]
    /\ loop.task[m] = "ended"
    /\ LoopStep([loop EXCEPT !.stopping[m] = FALSE, !.conn = "closed"])

\* the server drops the connection
drop_connection ==
    /\ loop.conn = "open"
    /\ LoopStep([loop EXCEPT !.conn = "broken"])

NextLoop ==
    \/ \E sibling_created \in BOOLEAN : loop_train_model(sibling_created)
    \/ \E m \in Monitors, first, second \in BOOLEAN : start(m, first, second)
    \/ \E m \in Monitors, first, second, query_raises \in BOOLEAN :
           poll_tick(m, first, second, query_raises)
    \/ poll_update
    \/ \E m \in Monitors : stop_begin(m)
    \/ \E m \in Monitors : task_ends(m)
    \/ \E m \in Monitors : stop_end(m)
    \/ drop_connection

SpecLoop == Init /\ [][NextLoop]_vars

(***************************************************************************)
(* SpecRestart: start() called while stop() of the same monitor waits for  *)
(* the task.  stop() has set _running to False and is suspended in         *)
(* asyncio.wait_for(self._task, timeout=5.0); loop.replaced[m] is the task *)
(* stop() waits for, once start() has put a new one in self._task.  The    *)
(* replaced task finds _running True again when its sleep returns and      *)
(* keeps looping until wait_for cancels it.                                *)
(***************************************************************************)
\* start() during the wait of stop(): _running is False, so the start goes on
start_in_stop(m, first, second) ==
    /\ running = "none"
    /\ loop.stopping[m]
    /\ loop.replaced[m] = "none"
    /\ LET r == start_result(loop, m, first, second)
       IN  CallStep(IF r.call.created = "task"
                    THEN [r.loop EXCEPT !.replaced[m] = loop.task[m]]
                    ELSE r.loop,
                    r.call)

\* stop() from the wait on, after such a start(): when the replaced task is
\* still alive wait_for times out and cancels it, and `self._task.cancel()`
\* and `await self._task` then end the task start() created; when it had
\* ended wait_for returns and nothing is cancelled.  Then the connection is
\* closed.  _running stays as start() left it.
stop_after_start(m) ==
    /\ running = "none"
    /\ loop.stopping[m]
    /\ loop.replaced[m] # "none"
    /\ LoopStep([loop EXCEPT !.task[m] = IF loop.replaced[m] = "ended" THEN @ ELSE "ended",
                             !.replaced[m] = "none",
                             !.stopping[m] = FALSE,
                             !.conn = "closed"])

\* the calls and the ticks over a store without jobs
NextRestart ==
    \/ \E m \in Monitors, first, second \in BOOLEAN : start(m, first, second)
    \/ \E m \in Monitors, first, second, query_raises \in BOOLEAN :
           poll_tick(m, first, second, query_raises)
    \/ \E m \in Monitors : stop_begin(m)
    \/ \E m \in Monitors : task_ends(m)
    \/ \E m \in Monitors : stop_end(m)
    \/ \E m \in Monitors, first, second \in BOOLEAN : start_in_stop(m, first, second)
    \/ \E m \in Monitors : stop_after_start(m)

SpecRestart == Init /\ [][NextRestart]_vars

(***************************************************************************)
(* SpecPollOnce: poll_job_once calls between the ticks.                    *)
(***************************************************************************)
\* a job id string that uuid.UUID() rejects
Malformed == -1

\* the job ids a caller may pass: ids of rows, an id of no row, a malformed id
PollIds == JobIds \cup {MaxJobs + 1, Malformed}

\* nothing is returned
NoSummary == [found |-> FALSE, job_info |-> NoInfo]

\* variant: poll_job_once stores the status it was told
BaseJobMonitor_poll_job_once_writes(S, job_id, cmd) ==
    IF job_id = Malformed \/ job_id \notin DOMAIN S.jobs \/ cmd.raised
    THEN [result |-> NoSummary, store |-> S]
    ELSE [result |-> [found |-> TRUE, job_info |-> get_job_info(cmd, Now)],
          store |-> [S EXCEPT !.jobs[job_id].status =
                                  get_job_info(cmd, Now).internal_status]]

\* BaseJobMonitor.poll_job_once on the store S: uuid.UUID(job_id), the row
\* read by id, get_job_info; every exception gives None
BaseJobMonitor_poll_job_once(S, job_id, cmd) ==
    IF job_id = Malformed
    THEN [result |-> NoSummary, store |-> S]
    ELSE IF job_id \notin DOMAIN S.jobs
    THEN [result |-> NoSummary, store |-> S]
    ELSE IF cmd.raised
    THEN [result |-> NoSummary, store |-> S]
    ELSE [result |-> [found |-> TRUE, job_info |-> get_job_info(cmd, Now)],
          store |-> S]

\* JobMonitorManager.poll_job_once: the training monitor, then the prediction
\* monitor, then the evaluation monitor, until one returns a summary; cmds[i]
\* is what the scheduler command of the i-th monitor asked does
JobMonitorManager_poll_job_once(S, job_id, cmds) ==
    LET r1 == BaseJobMonitor_poll_job_once(S, job_id, cmds[1])
        r2 == BaseJobMonitor_poll_job_once(r1.store, job_id, cmds[2])
        r3 == BaseJobMonitor_poll_job_once(r2.store, job_id, cmds[3])
    IN  IF r1.result.found THEN r1
        ELSE IF r2.result.found THEN r2
        ELSE r3

\* the scheduler command cannot be run
CommandFails == [raised |-> TRUE, return_code |-> 0, out |-> NoOutput]

\* what is remembered of a poll_job_once call: the id asked for, the status
\* of the summary returned, and whether a summary was returned
Polled_once(job_id, result) ==
    [NoCall EXCEPT !.id = job_id,
                   !.new_status = result.job_info.internal_status,
                   !.not_found = result.found /\ result.job_info.state = "NOT_FOUND",
                   !.outcome = IF result.found THEN "summary" ELSE "nothing"]

\* poll_job_once of the manager between two ticks; the scheduler command
\* fails for the first `failing` monitors asked and answers cmd afterwards
poll_job_once(job_id, failing, cmd) ==
    /\ running = "none"
    /\ LET cmds == [i \in 1..3 |-> IF i <= failing THEN CommandFails ELSE cmd]
           r == JobMonitorManager_poll_job_once(store, job_id, cmds)
       IN  /\ jobs' = r.store.jobs
           /\ training' = r.store.training
           /\ inference' = r.store.inference
           /\ evaluation' = r.store.evaluation
           /\ model' = r.store.model
           /\ last' = Polled_once(job_id, r.result)
    /\ UNCHANGED <<running, monitorable_jobs, applied, loop, io>>

\* a submission of any kind while the store holds fewer than MaxLoopJobs jobs
poll_once_submission(sibling_created) ==
    /\ Cardinality(DOMAIN jobs) < MaxLoopJobs
    /\ \/ train_model(sibling_created)
       \/ make_prediction(sibling_created)
       \/ run_evaluation(sibling_created)

NextPollOnce ==
    \/ \E sibling_created \in BOOLEAN : poll_once_submission(sibling_created)
    \/ \E m \in Monitors : _poll_active_jobs(m)
    \/ _update_job_status
    \/ \E job_id \in PollIds, failing \in 0..3, cmd \in Commands :
           poll_job_once(job_id, failing, cmd)

SpecPollOnce == Init /\ [][NextPollOnce]_vars

(***************************************************************************)
(* The manager and the host facade.  The manager's calls run on the event  *)
(* loop of the poller thread, between the ticks of the monitors; no job is *)
(* submitted here, so a tick is one step.                                  *)
(***************************************************************************)
\* BaseJobMonitor.is_running
is_running(l, m) == l._running[m] /\ l.task[m] \in {"ready", "sleep", "tick"}

\* JobMonitorManager.is_running
manager_is_running(l) == l.manager._running /\ \E m \in Monitors : is_running(l, m)

\* PollerFacade.is_running
facade_is_running(l) == l.thread = "alive" /\ manager_is_running(l)

\* variant: _stop_monitors stops no monitor
stop_tasks_none(l) == {}

\* the stop coroutines _stop_monitors collects
stop_tasks(l) == {m \in Monitors : is_running(l, m)}

\* JobMonitorManager.start() up to the gather of the three start coroutines;
\* a running manager logs and returns
manager_start ==
    /\ running = "none"
    /\ loop.manager.op = "idle"
    /\ IF loop.manager._running
       THEN CallStep(loop, Op("manager.start", "none", "none", "returned"))
       ELSE LoopStep([loop EXCEPT !.manager.op = "starting",
                                  !.manager.pending = Monitors,
                                  !.manager.failed = FALSE])

\* one start coroutine of the gather runs; start() has no suspension point
manager_start_monitor(m, first, second) ==
    /\ running = "none"
    /\ loop.manager.op = "starting"
    /\ m \in loop.manager.pending
    /\ LET r == start_result(loop, m, first, second)
       IN  CallStep([r.loop EXCEPT !.manager.pending = @ \ {m},
                                   !.manager.failed = @ \/ r.call.ended = "raised"],
                    r.call)

\* the gather of start() is over: _running is set, or after a failure
\* _stop_monitors collects the monitors that are running
manager_start_end ==
    /\ running = "none"
    /\ loop.manager.op = "starting"
    /\ loop.manager.pending = {}
    /\ IF loop.manager.failed
       THEN LoopStep([loop EXCEPT !.manager.op = "failing",
                                  !.manager.pending = stop_tasks(loop)])
       ELSE CallStep([loop EXCEPT !.manager.op = "idle", !.manager._running = TRUE],
                     Op("manager.start", "none", "none", "returned"))

\* JobMonitorManager.stop() up to the gather of _stop_monitors; a manager
\* that is not running logs and returns
manager_stop ==
    /\ running = "none"
    /\ loop.manager.op = "idle"
    /\ IF ~loop.manager._running
       THEN CallStep(loop, Op("manager.stop", "none", "none", "returned"))
       ELSE LoopStep([loop EXCEPT !.manager.op = "stopping",
                                  !.manager.pending = stop_tasks(loop)])

\* one stop coroutine of _stop_monitors runs up to its wait for the task
_stop_monitors_stop(m) ==
    /\ running = "none"
    /\ loop.manager.op \in {"failing", "stopping"}
    /\ m \in loop.manager.pending
    /\ loop._running[m]
    /\ LoopStep([loop EXCEPT !._running[m] = FALSE, !.stopping[m] = TRUE,
                             !.manager.pending = @ \ {m}])

\* stop() of a monitor ends by raising after its task has ended; the
\* connection is not closed
stop_raises(m) ==
    /\ running = "none"
    /\ loop.stopping[m]
    /\ loop.task[m] = "ended"
    /\ CallStep([loop EXCEPT !.stopping[m] = FALSE], Op("stop", m, "none", "raised"))

\* variant: the manager does not wait for the stop coroutines
_stop_monitors_done_early(l) == l.manager.pending = {}

\* gather(*stop_tasks, return_exceptions=True) is over: every stop coroutine
\* has returned or raised
_stop_monitors_done(l) ==
    l.manager.pending = {} /\ \A m \in Monitors : ~l.stopping[m]

\* _stop_monitors is over: start() raises, stop() clears _running and returns
_stop_monitors_end ==
    /\ running = "none"
    /\ loop.manager.op \in {"failing", "stopping"}
    /\ _stop_monitors_done(loop)
    /\ IF loop.manager.op = "failing"
       THEN CallStep([loop EXCEPT !.manager.op = "idle", !.manager.failed = FALSE],
                     Op("manager.start", "none", "none", "raised"))
       ELSE CallStep([loop EXCEPT !.manager.op = "idle", !.manager._running = FALSE],
                     Op("manager.stop", "none", "none", "returned"))

\* start() of a monitor called directly while no manager call is in progress
direct_start(m, first, second) ==
    /\ loop.manager.op = "idle"
    /\ start(m, first, second)

\* a tick of a monitor with no job to poll
manager_tick(m, first, second, query_raises) ==
    /\ jobs = <<>>
    /\ poll_tick(m, first, second, query_raises)

\* PollerFacade.start(): a thread that is alive is kept, otherwise a new
\* thread runs _run_poller_thread
facade_start ==
    /\ running = "none"
    /\ IF loop.thread = "alive"
       THEN CallStep(loop, Op("facade.start", "none", "none", "returned"))
       ELSE CallStep([loop EXCEPT !.thread = "alive", !.main = "start"],
                     Op("facade.start", "none", "thread", "returned"))

\* PollerFacade.shutdown() of a live thread: the shutdown event is set (the
\* stop coroutine it schedules on the loop is manager_stop)
facade_shutdown ==
    /\ running = "none"
    /\ loop.thread = "alive"
    /\ ~loop.shutdown
    /\ LoopStep([loop EXCEPT !.shutdown = TRUE])

\* _async_poller_main calls start() of the manager
main_start ==
    /\ running = "none"
    /\ loop.main = "start"
    /\ loop.manager.op = "idle"
    /\ IF loop.manager._running
       THEN CallStep([loop EXCEPT !.main = "wait"],
                     Op("manager.start", "none", "none", "returned"))
       ELSE LoopStep([loop EXCEPT !.main = "starting", !.manager.op = "starting",
                                  !.manager.pending = Monitors,
                                  !.manager.failed = FALSE])

\* start() of the manager is over: the main coroutine waits for the
\* shutdown event, or after a failure calls stop(), which finds the manager
\* not running, and the thread ends
main_started ==
    /\ running = "none"
    /\ loop.main = "starting"
    /\ loop.manager.op = "idle"
    /\ IF loop.manager._running
       THEN LoopStep([loop EXCEPT !.main = "wait"])
       ELSE LoopStep([loop EXCEPT !.main = "none", !.thread = "ended"])

\* the 1 s sleep of the main coroutine returns with the shutdown event set
\* or the manager not running: stop() of the manager is called
main_wakes ==
    /\ running = "none"
    /\ loop.main = "wait"
    /\ loop.manager.op = "idle"
    /\ loop.shutdown \/ ~manager_is_running(loop)
    /\ IF loop.manager._running
       THEN LoopStep([loop EXCEPT !.main = "stopping", !.manager.op = "stopping",
                                  !.manager.pending = stop_tasks(loop)])
       ELSE LoopStep([loop EXCEPT !.main = "none", !.thread = "ended"])

\* stop() of the manager has returned to the main coroutine: the thread ends
main_stopped ==
    /\ running = "none"
    /\ loop.main = "stopping"
    /\ loop.manager.op = "idle"
    /\ LoopStep([loop EXCEPT !.main = "none", !.thread = "ended"])

\* get_pool_status() reads attributes of the pool and catches AttributeError:
\* it raises for no state of the connection
get_pool_status_raises(usable) == FALSE

\* overall_health(): the status it answers with
overall_health_status(usable, poller_healthy) ==
    LET db_healthy == ~get_pool_status_raises(usable)
    IN  IF db_healthy /\ poller_healthy THEN "healthy" ELSE "unhealthy"

\* a request to the /health endpoint; usable: a query on the connection of
\* the request would succeed
overall_health(usable) ==
    /\ running = "none"
    /\ CallStep(loop, [Op("overall_health", "none", "none",
                          overall_health_status(usable, facade_is_running(loop)))
                       EXCEPT !.input = IF usable THEN "usable" ELSE "unusable"])

NextManager ==
    \/ manager_start
    \/ \E m \in Monitors, first, second \in BOOLEAN : manager_start_monitor(m, first, second)
    \/ manager_start_end
    \/ manager_stop
    \/ \E m \in Monitors : _stop_monitors_stop(m)
    \/ \E m \in Monitors : task_ends(m)
    \/ \E m \in Monitors : stop_end(m)
    \/ \E m \in Monitors : stop_raises(m)
    \/ _stop_monitors_end
    \/ \E m \in Monitors, first, second \in BOOLEAN : direct_start(m, first, second)
    \/ \E m \in Monitors, first, second, query_raises \in BOOLEAN :
           manager_tick(m, first, second, query_raises)
    \/ drop_connection
    \/ facade_start
    \/ facade_shutdown
    \/ main_start
    \/ main_started
    \/ main_wakes
    \/ main_stopped
    \/ \E usable \in BOOLEAN : overall_health(usable)

SpecManager == Init /\ [][NextManager]_vars

(***************************************************************************)
(* SpecFunctions: the scheduler client, the parser and the template        *)
(* renderer called on their own, on inputs drawn from bounded sets.        *)
(***************************************************************************)
\* what subprocess.run does with a command: it cannot be started, it times
\* out, or it exits with return_code and a stdout that is blank or holds the
\* key/values out
Runs ==
    [transport : {"ok", "missing", "timeout"}, return_code : {0, 1},
     blank : BOOLEAN, out : ScontrolOutputs]

\* BashClient.execute_command: ModelCreationException for a command that is
\* missing or times out, otherwise stdout and the return code
execute_command(run) == [raised |-> run.transport # "ok", return_code |-> run.return_code]

\* parse_scontrol_output: ValueError for an output without key=value pairs
parse_scontrol_output_raises(run) == run.blank

\* SlurmClient.get_job_info from the run of the scontrol command on: every
\* exception inside the try block is raised as a ModelCreationException
SlurmClient_get_job_info(run, current_time) ==
    LET cmd == [raised |-> FALSE, return_code |-> run.return_code, out |-> run.out]
    IN  IF execute_command(run).raised
        THEN [raised |-> TRUE, job_info |-> NoInfo]
        ELSE IF run.return_code = 0 /\ parse_scontrol_output_raises(run)
        THEN [raised |-> TRUE, job_info |-> NoInfo]
        ELSE [raised |-> FALSE, job_info |-> get_job_info(cmd, current_time)]

call_get_job_info(run) ==
    /\ io' = [op |-> "get_job_info", input |-> run,
              output |-> SlurmClient_get_job_info(run, Now)]
    /\ UNCHANGED <<jobs, training, inference, evaluation, model, running,
                   monitorable_jobs, last, applied, loop>>

\* a submission: how create_temp_file goes, what the sbatch command does and
\* whether its stdout holds "Submitted batch job <digits>"
Submissions ==
    [create : {"ok", "mkstemp_fails", "write_fails"},
     transport : {"ok", "missing", "timeout"}, return_code : {0, 1},
     parseable : BOOLEAN]

\* the path mkstemp returns
ScratchFile == "tmp.sbatch"

\* create_temp_file: mkstemp creates the file, then the content is written;
\* the path is returned only after the write.  files: the files that exist
create_temp_file(sub) ==
    IF sub.create = "mkstemp_fails" THEN [raised |-> TRUE, path |-> None, files |-> {}]
    ELSE IF sub.create = "write_fails"
    THEN [raised |-> TRUE, path |-> None, files |-> {ScratchFile}]
    ELSE [raised |-> FALSE, path |-> ScratchFile, files |-> {ScratchFile}]

\* cleanup_file: os.unlink
cleanup_file(files, path) == files \ {path}

\* BashClient.execute_command_with_success_check and extract_job_id
sbatch_raises(sub) ==
    \/ sub.transport # "ok"
    \/ sub.return_code # 0
    \/ ~sub.parseable

\* variant: the scratch file is removed only when the submission succeeded
submit_sbatch_job_no_finally(sub) ==
    LET created == create_temp_file(sub)
    IN  IF created.raised
        THEN [raised |-> TRUE, job_id |-> None, files |-> created.files]
        ELSE IF sbatch_raises(sub)
        THEN [raised |-> TRUE, job_id |-> None, files |-> created.files]
        ELSE [raised |-> FALSE, job_id |-> "123",
              files |-> cleanup_file(created.files, created.path)]

\* SlurmClient.submit_sbatch_job: the finally block removes the file whose
\* path create_temp_file returned
submit_sbatch_job(sub) ==
    LET created == create_temp_file(sub)
        files == IF created.path # None
                 THEN cleanup_file(created.files, created.path)
                 ELSE created.files
    IN  IF created.raised \/ sbatch_raises(sub)
        THEN [raised |-> TRUE, job_id |-> None, files |-> files]
        ELSE [raised |-> FALSE, job_id |-> "123", files |-> files]

call_submit_sbatch_job(sub) ==
    /\ io' = [op |-> "submit_sbatch_job", input |-> sub, output |-> submit_sbatch_job(sub)]
    /\ UNCHANGED <<jobs, training, inference, evaluation, model, running,
                   monitorable_jobs, last, applied, loop>>

\* names a template may use as placeholders
MaxPlaceholders == 2

PlaceholderNames == {"model_name", "fold_index", "missing_var"}

\* a template is the sequence of its placeholders, in the order of the text
Templates == UNION {[1..n -> PlaceholderNames] : n \in 0..MaxPlaceholders}

\* the keys of variables.to_dict()
VariableBundles == SUBSET PlaceholderNames

RECURSIVE missing_vars(_, _)
\* [var for var in placeholders if var not in variables_dict]
missing_vars(placeholders, variables_dict) ==
    IF placeholders = <<>> THEN <<>>
    ELSE (IF Head(placeholders) \in variables_dict THEN <<>> ELSE <<Head(placeholders)>>)
         \o missing_vars(Tail(placeholders), variables_dict)

\* template_content.format(**variables_dict): every placeholder replaced
format(template_content, variables_dict) ==
    [i \in DOMAIN template_content |-> "value of " \o template_content[i]]

\* a ModelCreationException whose message is prefix, then text, then for
\* the missing-variables text the list of names
Raise(prefix, text, names) ==
    [raised |-> TRUE, exception |-> "ModelCreationException",
     message |-> [prefix |-> prefix, text |-> text, names |-> names],
     script |-> <<>>]

Return(script) ==
    [raised |-> FALSE, exception |-> "none",
     message |-> [prefix |-> "", text |-> "", names |-> <<>>],
     script |-> script]

\* TemplateGenerator.interpolate_template: with missing variables the bare
\* `raise` has no active exception, which is a RuntimeError that the
\* `except Exception` block wraps
interpolate_template(template_content, variables_dict) ==
    LET missing == missing_vars(template_content, variables_dict)
    IN  IF missing # <<>>
        THEN Raise("Template interpolation failed: ",
                   "No active exception to reraise", <<>>)
        ELSE Return(format(template_content, variables_dict))

generate_training_sbatch_content(template_content, variables_dict) ==
    interpolate_template(template_content, variables_dict)

\* the ModelCreationException raised in the try block is wrapped by the
\* `except Exception` block
generate_inference_sbatch_content(template_content, variables_dict) ==
    LET missing == missing_vars(template_content, variables_dict)
    IN  IF missing # <<>>
        THEN Raise("Inference template generation failed: ",
                   "Missing template variables: ", missing)
        ELSE Return(format(template_content, variables_dict))

generate_evaluation_sbatch_content(template_content, variables_dict) ==
    LET missing == missing_vars(template_content, variables_dict)
    IN  IF missing # <<>>
        THEN Raise("Evaluation template generation failed: ",
                   "Missing template variables: ", missing)
        ELSE Return(format(template_content, variables_dict))

call_render(m, template_content, variables_dict) ==
    /\ io' = [op |-> "render",
              input |-> [kind |-> m, template_content |-> template_content,
                         variables_dict |-> variables_dict],
              output |-> IF m = "TRAINING"
                         THEN generate_training_sbatch_content(template_content,
                                                               variables_dict)
                         ELSE IF m = "INFERENCE"
                         THEN generate_inference_sbatch_content(template_content,
                                                                variables_dict)
                         ELSE generate_evaluation_sbatch_content(template_content,
                                                                 variables_dict)]
    /\ UNCHANGED <<jobs, training, inference, evaluation, model, running,
                   monitorable_jobs, last, applied, loop>>

\* parsed scontrol key/values for the parser on its own: every state of the
\* mapping table, a state outside it, the empty state and no state; no exit
\* code, a zero and a non-zero one; no reason, the placeholders and a reason
ParsedOutputs ==
    [JobState : {"PENDING", "RUNNING", "SUSPENDED", "COMPLETED", "FAILED", "CANCELLED",
                 "TIMEOUT", "OUT_OF_MEMORY", "NODE_FAIL", "PREEMPTED", "BOOT_FAIL",
                 "", None},
     ExitCode : {None, "0:0", "1:0"},
     Reason : {None, "None", "(null)", "N/A", "NonZeroExitCode"},
     StartTime : {NoTime}, EndTime : {NoTime}]

call_extract_job_summary(job_info) ==
    /\ io' = [op |-> "extract_job_summary", input |-> job_info,
              output |-> extract_job_summary(job_info)]
    /\ UNCHANGED <<jobs, training, inference, evaluation, model, running,
                   monitorable_jobs, last, applied, loop>>

\* the states of the mapping table, two strings outside it and the empty one
SlurmStates ==
    {"PENDING", "RUNNING", "SUSPENDED", "COMPLETED", "NOT_FOUND", "FAILED",
     "CANCELLED", "TIMEOUT", "OUT_OF_MEMORY", "NODE_FAIL", "PREEMPTED",
     "BOOT_FAIL", "running", ""}

call_map_slurm_state_to_job_status(slurm_state) ==
    /\ io' = [op |-> "map_slurm_state_to_job_status", input |-> slurm_state,
              output |-> map_slurm_state_to_job_status(slurm_state)]
    /\ UNCHANGED <<jobs, training, inference, evaluation, model, running,
                   monitorable_jobs, last, applied, loop>>

NextFunctions ==
    \/ \E run \in Runs : call_get_job_info(run)
    \/ \E sub \in Submissions : call_submit_sbatch_job(sub)
    \/ \E m \in Monitors, template_content \in Templates,
          variables_dict \in VariableBundles :
           call_render(m, template_content, variables_dict)
    \/ \E job_info \in ParsedOutputs : call_extract_job_summary(job_info)
    \/ \E slurm_state \in SlurmStates : call_map_slurm_state_to_job_status(slurm_state)

SpecFunctions == Init /\ [][NextFunctions]_vars

(***************************************************************************)
(* Type invariant                                                          *)
(***************************************************************************)
JobStatuses == {"PENDING", "RUNNING", "COMPLETED", "FAILED"}

TypeOK ==
    /\ DOMAIN jobs \subseteq JobIds
    /\ \A id \in DOMAIN jobs :
          /\ jobs[id].job_type \in Monitors
          /\ jobs[id].status \in JobStatuses
          /\ jobs[id].start_time \in {NoTime} \cup Times
          /\ jobs[id].end_time \in {NoTime, Now} \cup Times
          /\ jobs[id].error_message = None \/ Len(jobs[id].error_message) > 0
    /\ \A id \in DOMAIN training :
          id \in DOMAIN jobs /\ training[id].status \in {"TRAINING", "TRAINED", "FAILED"}
    /\ \A id \in DOMAIN inference :
          id \in DOMAIN jobs
          /\ inference[id].status \in {"PENDING", "PROCESSING", "COMPLETED", "FAILED"}
    /\ \A id \in DOMAIN evaluation :
          id \in DOMAIN jobs
          /\ evaluation[id].status \in {"PENDING", "EVALUATING", "COMPLETED", "FAILED"}
    /\ running \in Monitors \cup {"none"}
    /\ loop.conn \in {"open", "closed", "broken"}
    /\ \A m \in Monitors :
          /\ loop._running[m] \in BOOLEAN
          /\ loop.stopping[m] \in BOOLEAN
          /\ loop.replaced[m] \in {"none", "ready", "sleep", "ended"}
          /\ loop.task[m] \in {"none", "ready", "sleep", "tick", "ended"}
    /\ loop.ticker \in Monitors \cup {"none"}
    /\ loop.attempts \in 0..2
    /\ loop.tick_error \in {"none", "connect", "store"}
    /\ loop.recovered \in BOOLEAN
    /\ loop.manager._running \in BOOLEAN
    /\ loop.manager.op \in {"idle", "starting", "failing", "stopping"}
    /\ loop.manager.pending \subseteq Monitors
    /\ loop.manager.failed \in BOOLEAN
    /\ loop.thread \in {"none", "alive", "ended"}
    /\ loop.main \in {"none", "start", "starting", "wait", "stopping"}
    /\ loop.shutdown \in BOOLEAN
    /\ loop.call.who \in Monitors \cup {"none"}
    /\ loop.call.created \in {"none", "task", "thread"}
    /\ loop.call.ended \in {"none", "returned", "raised", "healthy", "unhealthy"}
    /\ loop.call.input \in {"none", "usable", "unusable"}

(***************************************************************************)
(* Properties                                                              *)
(***************************************************************************)
Tables == <<jobs, training, inference, evaluation, model>>

Terminal == {"COMPLETED", "FAILED"}

LegalTransitions == {<<"PENDING", "RUNNING">>, <<"PENDING", "FAILED">>,
                     <<"RUNNING", "COMPLETED">>, <<"RUNNING", "FAILED">>}

Allowed(old, new) == old = new \/ <<old, new>> \in LegalTransitions

\* C1: every change of a Job's status made by a step is one of PENDING->RUNNING,
\* PENDING->FAILED, RUNNING->COMPLETED, RUNNING->FAILED, and a call of
\* _update_job_status whose mapped status is not an allowed successor of the
\* stored status writes nothing.
C1_LegalTransitionsOnly ==
    [][/\ \A id \in DOMAIN jobs : Allowed(jobs[id].status, jobs'[id].status)
       /\ (last'.id # 0 /\ ~Allowed(last'.current_status, last'.new_status))
              => UNCHANGED Tables]_vars

\* a PENDING job answered COMPLETED has just been refused while another job
\* has gone all the way to COMPLETED
C1_Witness ==
    /\ last.outcome = "invalid"
    /\ last.current_status = "PENDING"
    /\ last.new_status = "COMPLETED"
    /\ jobs[last.id].status = "PENDING"
    /\ \E id \in DOMAIN jobs : jobs[id].status = "COMPLETED"

\* C2: a Job row whose status is COMPLETED or FAILED is never written again,
\* also by a tick whose candidate list still contains the job.
C2_TerminalImmutable ==
    [][\A id \in DOMAIN jobs : jobs[id].status \in Terminal => jobs'[id] = jobs[id]]_vars

\* a tick has just started with a terminal job among its candidates and goes
\* on to process the other candidates
C2_Witness ==
    /\ last.outcome = "polled"
    /\ last.skipped > 0
    /\ running # "none"
    /\ \E id \in DOMAIN jobs : jobs[id].job_type = running /\ jobs[id].status \in Terminal

\* the sibling of a COMPLETED job is in the matching terminal status and a
\* TRAINING job has a Model
CompletedConsistent ==
    \A id \in DOMAIN jobs :
        jobs[id].status = "COMPLETED" =>
            CASE jobs[id].job_type = "TRAINING" ->
                     /\ id \in DOMAIN training
                     /\ training[id].status = "TRAINED"
                     /\ get_by_training_id(model, id) # {}
              [] jobs[id].job_type = "INFERENCE" ->
                     id \in DOMAIN inference /\ inference[id].status = "COMPLETED"
              [] jobs[id].job_type = "EVALUATION" ->
                     id \in DOMAIN evaluation /\ evaluation[id].status = "COMPLETED"

\* C3: in every committed state a COMPLETED Job has its sibling in the matching
\* terminal status (and a TRAINING job its Model), and a completion handler
\* that fails leaves none of its writes behind.
C3_CompletionAtomic ==
    [][/\ CompletedConsistent'
       /\ (last'.outcome = "failed" /\ last'.new_status = "COMPLETED")
              => UNCHANGED Tables]_vars

\* C4: a Training has a Model iff it is TRAINED, a TRAINED Training has
\* exactly one Model, and a Training whose job is FAILED has none.
C4_ModelIffTrained ==
    \A id \in DOMAIN training :
        /\ (get_by_training_id(model, id) # {}) <=> (training[id].status = "TRAINED")
        /\ training[id].status = "TRAINED" => Cardinality(get_by_training_id(model, id)) = 1
        /\ jobs[id].status = "FAILED" => get_by_training_id(model, id) = {}

\* one Training is TRAINED with its Model, another's job has FAILED
C4_Witness ==
    /\ \E id \in DOMAIN training :
           /\ training[id].status = "TRAINED"
           /\ Cardinality(get_by_training_id(model, id)) = 1
    /\ \E id \in DOMAIN training :
           /\ jobs[id].status = "FAILED"
           /\ get_by_training_id(model, id) = {}

\* C5: a TRAINING Job is FAILED iff its Training is FAILED.
C5_TrainingFailedTogether ==
    \A id \in DOMAIN training :
        (jobs[id].status = "FAILED") <=> (training[id].status = "FAILED")

C7_PendingNotFoundCompletes ==
    [][(last'.id # 0 /\ last'.not_found /\ last'.current_status = "PENDING")
          => /\ jobs'[last'.id].status = "COMPLETED"
             /\ jobs'[last'.id].end_time = Now
             /\ jobs'[last'.id].start_time = NoTime]_vars

\* C8: an INFERENCE Job that is RUNNING has its Inference PROCESSING.
C8_RunningImpliesProcessing ==
    \A id \in DOMAIN inference :
        jobs[id].status = "RUNNING" => inference[id].status = "PROCESSING"

\* C9: when the query for a RUNNING INFERENCE job exits non-zero and the
\* handler succeeds, the Job is COMPLETED with end_time the poll time, its
\* Inference is COMPLETED with the same end_time, and the Job's start_time is
\* what it was.
C9_NotFoundRunningInference ==
    [][(/\ last'.id \in DOMAIN inference
        /\ last'.not_found
        /\ last'.current_status = "RUNNING"
        /\ last'.outcome = "ok")
          => /\ jobs'[last'.id].status = "COMPLETED"
             /\ jobs'[last'.id].end_time = Now
             /\ inference'[last'.id].status = "COMPLETED"
             /\ inference'[last'.id].end_time = jobs'[last'.id].end_time
             /\ jobs'[last'.id].start_time = jobs[last'.id].start_time]_vars

\* C10: a handler call repeated with the same job snapshot and the same job
\* info leaves every table as the first call left it.
C10_ReplaySameStore ==
    [][last'.outcome \in {"replayed", "replay failed"} => UNCHANGED Tables]_vars

\* C11: when the update handler returns false for a job, the Job row is as it
\* was before the call and the job is among its monitor's candidates again.
C11_FailedHandlerLeavesJob ==
    [][last'.outcome = "failed"
          => /\ jobs'[last'.id] = jobs[last'.id]
             /\ last'.id \in _get_jobs_to_monitor(jobs'[last'.id].job_type, jobs')]_vars

\* C12: every Job row has its sibling row (a submission that fails leaves
\* neither).
C12_NoJobWithoutSibling ==
    \A id \in DOMAIN jobs :
        CASE jobs[id].job_type = "TRAINING"   -> id \in DOMAIN training
          [] jobs[id].job_type = "INFERENCE"  -> id \in DOMAIN inference
          [] jobs[id].job_type = "EVALUATION" -> id \in DOMAIN evaluation

\* C13: the candidates of the three monitors are pairwise disjoint and of the
\* monitor's own kind, the jobs a tick holds are of the kind of its monitor,
\* and a Job row is written only while the monitor of its kind is ticking.
C13_OwnKindOnly ==
    [][/\ \A m1, m2 \in Monitors :
              m1 # m2 => _get_jobs_to_monitor(m1, jobs') \cap
                             _get_jobs_to_monitor(m2, jobs') = {}
       /\ \A m \in Monitors : \A id \in _get_jobs_to_monitor(m, jobs') :
              jobs'[id].job_type = m
       /\ \A job \in monitorable_jobs' : job.job_type = running'
       /\ \A id \in DOMAIN jobs :
              jobs'[id] # jobs[id] => running = jobs[id].job_type]_vars

\* the inference monitor is ticking over its job while the table also holds
\* a TRAINING job
C13_Witness ==
    /\ running = "INFERENCE"
    /\ monitorable_jobs # {}
    /\ \E id \in DOMAIN jobs : jobs[id].job_type = "TRAINING"

C15_EndTimeNeedsStartTime ==
    [][\A id \in DOMAIN jobs :
           jobs'[id].end_time # jobs[id].end_time
               => \/ jobs'[id].start_time # NoTime
                  \/ last'.not_found /\ jobs'[id].end_time = Now]_vars

\* C16: a Job with an error_message is FAILED, and the error_message is
\* written only by the step that moves the Job to FAILED.
C16_ErrorOnlyWhenFailed ==
    [][\A id \in DOMAIN jobs :
           /\ jobs'[id].error_message # None => jobs'[id].status = "FAILED"
           /\ jobs'[id].error_message # jobs[id].error_message
                  => jobs[id].status # "FAILED" /\ jobs'[id].status = "FAILED"]_vars

\* the training monitor has just moved a job to FAILED with an error message
C16_Witness ==
    /\ last.outcome = "ok"
    /\ last.new_status = "FAILED"
    /\ jobs[last.id].job_type = "TRAINING"
    /\ jobs[last.id].status = "FAILED"
    /\ jobs[last.id].error_message # None

\* C17: a call of _update_job_status that ends in an error takes only its own
\* job off the tick's list, the tick goes on with the rest, and the rows of
\* the other jobs are untouched.
C17_ErrorsIsolated ==
    [][last'.outcome \in {"raised", "failed"}
          => /\ monitorable_jobs' = {job \in monitorable_jobs : job.id # last'.id}
             /\ monitorable_jobs' # {} => running' = running
             /\ \A id \in DOMAIN jobs \ {last'.id} : jobs'[id] = jobs[id]
             /\ \A id \in DOMAIN training \ {last'.id} : training'[id] = training[id]
             /\ \A id \in DOMAIN inference \ {last'.id} : inference'[id] = inference[id]
             /\ \A id \in DOMAIN evaluation \ {last'.id} : evaluation'[id] = evaluation[id]]_vars

\* the scheduler query of one job has just raised and the tick still holds
\* another job to process
C17_Witness ==
    /\ last.outcome = "raised"
    /\ running # "none"
    /\ \E job \in monitorable_jobs : job.id # last.id

\* the tasks of the monitors that hold one and have not been stopped
Alive == {m \in Monitors : loop._running[m] /\ loop.task[m] \in {"ready", "sleep", "tick"}}

\* C18: a polling task ends only after its monitor was stopped; a tick,
\* failing or not, leaves its task in the inter-tick sleep, the only way out
\* of the sleep of a running monitor is the next tick, and a step in which a
\* tick has an error ends no monitor's task.
C18_LoopSurvivesErrors ==
    [][\A m \in Monitors :
           /\ loop.task[m] # "ended" /\ loop'.task[m] = "ended" => ~loop._running[m]
           /\ loop.task[m] = "tick" /\ loop'.task[m] # "tick" => loop'.task[m] = "sleep"
           /\ loop.task[m] \in {"ready", "sleep"} /\ loop._running[m] /\ loop'._running[m]
                  => \/ loop'.task[m] = loop.task[m]
                     \/ loop'.ticker = m /\ loop'.task[m] \in {"tick", "sleep"}
           /\ loop'.tick_error # "none" => (m \in Alive => loop'.task[m] # "ended")]_vars

\* a tick of one monitor has just ended with a store error, the monitor sleeps
\* until its next tick, and another monitor's loop is running too
C18_Witness ==
    /\ loop.tick_error = "store"
    /\ running = "none"
    /\ loop.ticker \in Alive
    /\ loop.task[loop.ticker] = "sleep"
    /\ Alive \ {loop.ticker} # {}

\* C19: a tick that ends with a database error of a store call has made a
\* reconnect attempt when its task enters the inter-tick sleep.
C19_ReconnectBeforeSleep ==
    [][loop'.tick_error = "store" /\ running' = "none"
          => loop'.recovered]_vars

\* C20: a tick that starts without a usable connection makes exactly one
\* connect() call; when that call fails the tick leaves the store alone and
\* its task sleeps until the next tick.
C20_OneReconnectAttempt ==
    [][\A m \in Monitors :
           loop'.ticker = m /\ loop.task[m] \in {"ready", "sleep"} /\ loop.conn # "open"
               => /\ loop'.attempts = 1
                  /\ loop'.conn # "open"
                         => /\ Tables' = Tables
                            /\ running' = "none"
                            /\ loop'.task[m] = "sleep"]_vars

C22_FailedStartStopsAll ==
    [][/\ loop.manager.op \in {"starting", "failing"} /\ loop.manager.failed
          /\ loop'.manager.op = "idle"
              => loop'.call = Op("manager.start", "none", "none", "raised")
       /\ loop'.call = Op("manager.start", "none", "none", "raised")
              => /\ \A m \in Monitors : ~is_running(loop', m)
                 /\ ~loop'.manager._running
                 /\ ~manager_is_running(loop')]_vars

\* start() of the manager has just raised after it had started and stopped a
\* monitor whose own start succeeded
C22_Witness ==
    /\ loop.call = Op("manager.start", "none", "none", "raised")
    /\ \E m \in Monitors : loop.task[m] = "ended"

C28_StartIdempotent ==
    [][(\/ loop'.call.name = "start" /\ loop._running[loop'.call.who]
        \/ /\ loop'.call.name = "manager.start"
           /\ loop.manager.op = "idle" /\ loop.manager._running
        \/ loop'.call.name = "facade.start" /\ loop.thread = "alive")
          => /\ loop'.call.created = "none"
             /\ loop'.call.ended = "returned"
             /\ loop'._running = loop._running
             /\ loop'.task = loop.task
             /\ loop'.conn = loop.conn
             /\ loop'.manager._running = loop.manager._running
             /\ loop'.thread = loop.thread]_vars

\* start() of a monitor that is running has just returned, under a manager
\* that is running and a facade whose thread is alive
C28_Witness ==
    /\ loop.call.name = "start"
    /\ loop.call.created = "none"
    /\ loop.call.ended = "returned"
    /\ is_running(loop, loop.call.who)
    /\ loop.manager._running
    /\ loop.thread = "alive"

\* C29: the /health endpoint answers "healthy" exactly when the poller is
\* running and a query on the database would succeed.
C29_HealthyIffBoth ==
    [][loop'.call.name = "overall_health"
          => (loop'.call.ended = "healthy"
                  <=> facade_is_running(loop) /\ loop'.call.input = "usable")]_vars

\* C24: a poll_job_once call, for whatever job id and whatever the scheduler
\* answers, leaves every table as it was; it returns a summary only for the
\* id of a Job row.
C24_PollOnceReadsOnly ==
    [][last'.outcome \in {"summary", "nothing"}
          => /\ Tables' = Tables
             /\ last'.outcome = "summary" => last'.id \in DOMAIN jobs]_vars

\* poll_job_once has just returned a summary with a finished status for a Job
\* that is stored as PENDING
C24_Witness ==
    /\ last.outcome = "summary"
    /\ last.new_status \in {"COMPLETED", "FAILED"}
    /\ jobs[last.id].status = "PENDING"

\* C25: get_job_info answers a non-zero exit of the query command with the
\* NOT_FOUND summary (internal status COMPLETED, finished, no error message)
\* and raises only when the command could not be run or timed out.
C25_RaisesOnlyForTransport ==
    io.op = "get_job_info"
        => /\ io.input.transport = "ok" /\ io.input.return_code # 0
                  => /\ ~io.output.raised
                     /\ io.output.job_info.state = "NOT_FOUND"
                     /\ io.output.job_info.internal_status = "COMPLETED"
                     /\ io.output.job_info.is_finished
                     /\ io.output.job_info.error_message = None
           /\ io.output.raised => io.input.transport # "ok"

C27_MissingVariablesReported ==
    io.op = "render"
    /\ missing_vars(io.input.template_content, io.input.variables_dict) # <<>>
        => /\ io.output.raised
           /\ io.output.exception = "ModelCreationException"
           /\ io.output.message.text = "Missing template variables: "
           /\ io.output.message.names =
                  missing_vars(io.input.template_content, io.input.variables_dict)
           /\ io.output.script = <<>>

\* C30: a summary whose state maps to FAILED carries an error_message, the
\* "; "-joined list of the state, the exit code when one other than 0:0 is
\* present, the reason when it is no placeholder, and the phrase of the state.
C30_FailedHasMessage ==
    LET job_state == io.output.state
        exit_code == io.output.exit_code
        reason == io.output.reason
        phrase == IF job_state = "CANCELLED" THEN <<"Job was cancelled">>
                  ELSE IF job_state = "TIMEOUT" THEN <<"Job exceeded time limit">>
                  ELSE IF job_state = "OUT_OF_MEMORY" THEN <<"Job ran out of memory">>
                  ELSE IF job_state = "NODE_FAIL" THEN <<"Node failure occurred">>
                  ELSE IF job_state = "FAILED"
                  THEN IF Truthy(exit_code) /\ exit_code # "0:0"
                       THEN <<"Job failed with non-zero exit code">>
                       ELSE <<"Job failed">>
                  ELSE <<>>
        message == Join(<<"Job state: " \o job_state>>
                        \o (IF Truthy(exit_code) /\ exit_code # "0:0"
                            THEN <<"Exit code: " \o exit_code>> ELSE <<>>)
                        \o (IF Truthy(reason) /\ reason \notin {"None", "(null)", "N/A"}
                            THEN <<"Reason: " \o reason>> ELSE <<>>)
                        \o phrase)
    IN  io.op = "extract_job_summary" /\ io.output.internal_status = "FAILED"
            => /\ io.output.error_message # None
               /\ io.output.error_message = message

\* C31: the mapping of scheduler states to internal statuses is total and is
\* the table: PENDING to PENDING; RUNNING and SUSPENDED to RUNNING; COMPLETED
\* and NOT_FOUND to COMPLETED; every other string, the empty one included, to
\* FAILED.  It is the mapping that extract_job_summary applies.
C31_MappingIsTable ==
    /\ io.op = "map_slurm_state_to_job_status"
           => io.output = IF io.input = "PENDING" THEN "PENDING"
                          ELSE IF io.input \in {"RUNNING", "SUSPENDED"} THEN "RUNNING"
                          ELSE IF io.input \in {"COMPLETED", "NOT_FOUND"} THEN "COMPLETED"
                          ELSE "FAILED"
    /\ io.op = "extract_job_summary"
           => io.output.internal_status =
                  IF io.output.state = "PENDING" THEN "PENDING"
                  ELSE IF io.output.state \in {"RUNNING", "SUSPENDED"} THEN "RUNNING"
                  ELSE IF io.output.state \in {"COMPLETED", "NOT_FOUND"} THEN "COMPLETED"
                  ELSE "FAILED"

\* a string outside the table has been mapped
C31_Witness ==
    /\ io.op = "map_slurm_state_to_job_status"
    /\ io.input = "running"
    /\ io.output = "FAILED"

\* C32 as stated: in a tick the update handler is invoked for a job exactly
\* when the mapped status differs from the stored status or the scheduler's
\* answer carries a start_time or end_time that the Job lacks.
C32_HandlerIffMustUpdate ==
    last.outcome \in {"ok", "failed", "noop", "invalid"}
        => (last.outcome \in {"ok", "failed"}
            <=> \/ last.current_status # last.new_status
                \/ last.start_time # NoTime /\ last.job_start_time = NoTime
                \/ last.end_time # NoTime /\ last.job_end_time = NoTime)

\* C32, amended: for a job whose scheduler answer was obtained, the update
\* handler is invoked exactly when the transition from the stored to the
\* mapped status is legal and the mapped status differs from the stored one
\* or the answer carries a start_time or end_time that the Job lacks; a call
\* that does not invoke the handler leaves the Job row, its sibling and the
\* Model table unchanged.
C32_HandlerIffLegalMustUpdate ==
    [][monitorable_jobs' # monitorable_jobs /\ monitorable_jobs' \subseteq monitorable_jobs
           => /\ last'.outcome \in {"ok", "failed", "noop", "invalid", "raised"}
              /\ last'.outcome # "raised"
                     => (last'.outcome \in {"ok", "failed"}
                         <=> /\ Allowed(last'.current_status, last'.new_status)
                             /\ \/ last'.current_status # last'.new_status
                                \/ /\ last'.start_time # NoTime
                                   /\ last'.job_start_time = NoTime
                                \/ /\ last'.end_time # NoTime
                                   /\ last'.job_end_time = NoTime)
              /\ last'.outcome \notin {"ok", "failed"}
                     => UNCHANGED <<jobs, training, inference, evaluation, model>>]_vars

\* the handler has run for a job whose status is unchanged and whose answer
\* brought an end_time the row lacked
C32_Witness ==
    /\ last.outcome = "ok"
    /\ last.current_status = last.new_status
    /\ last.end_time # NoTime
    /\ last.job_end_time = NoTime
    /\ last.job_start_time # NoTime

\* C33: when a call of the evaluation monitor with mapped status RUNNING has
\* updated the Job row, the job's Evaluation is EVALUATING after the call;
\* and no step moves an Evaluation that is COMPLETED or FAILED to EVALUATING.
C33_RunningSetsEvaluating ==
    [][/\ \A id \in DOMAIN evaluation :
              (/\ last'.id = id
               /\ last'.outcome \in {"ok", "failed"}
               /\ last'.new_status = "RUNNING"
               /\ monitorable_jobs' # monitorable_jobs
               /\ jobs'[id] # jobs[id])
                  => evaluation'[id].status = "EVALUATING"
       /\ \A id \in DOMAIN evaluation :
              evaluation[id].status \in {"COMPLETED", "FAILED"}
                  => evaluation'[id].status # "EVALUATING"]_vars

\* C34: if from some point on every query for a job is answered with a state
\* that maps to COMPLETED or FAILED (NOT_FOUND included) and no call for the
\* job fails, then under fair ticking the Job is eventually COMPLETED or FAILED.
C34_EventuallyTerminal ==
    \A id \in JobIds :
        (/\ <>(id \in DOMAIN jobs)
         /\ <>[](last.id = id => /\ last.new_status \in {"COMPLETED", "FAILED"}
                                 /\ last.outcome \notin {"raised", "failed"}))
            => <>(id \in DOMAIN jobs /\ jobs[id].status \in {"COMPLETED", "FAILED"})

\* C35: a monitor never has two live polling-loop tasks, whatever the order of
\* the start() and stop() calls, a start() during the wait of a stop()
\* included; and once stop() has returned, the task it was called on is no
\* longer alive.
C35_OneLiveTask ==
    \A m \in Monitors :
        /\ ~(/\ loop.task[m] \in {"ready", "sleep", "tick"}
             /\ loop.replaced[m] \in {"ready", "sleep", "tick"})
        /\ ~loop.stopping[m] => loop.replaced[m] \notin {"ready", "sleep", "tick"}

\* C36: while a tick is executing, no stop flag changes, no task ends or is
\* created and no other monitor's tick begins; the jobs the tick selected are
\* processed one by one by the same monitor (a submission or a dropped
\* connection may fall in between), and the tick is over only when every
\* selected job has been processed.
C36_TickNotInterrupted ==
    [][running # "none"
           => /\ running' \in {running, "none"}
              /\ loop'._running = loop._running
              /\ loop'.stopping = loop.stopping
              /\ \A m \in Monitors \ {running} : loop'.task[m] = loop.task[m]
              /\ loop'.task[running] \in {"tick", "sleep"}
              /\ \/ monitorable_jobs' = monitorable_jobs
                 \/ \E job \in monitorable_jobs :
                        /\ monitorable_jobs' = monitorable_jobs \ {job}
                        /\ last'.id = job.id
                        /\ loop'.ticker = running
              /\ running' = "none" <=> monitorable_jobs' = {}]_vars

\* a tick has selected its jobs and has not processed them yet, while the
\* loop of another monitor is alive
C36_Witness ==
    /\ running # "none"
    /\ monitorable_jobs # {}
    /\ loop.task[running] = "tick"
    /\ Alive \ {running} # {}

\* C37: whenever the manager reports that it is running, each of the three
\* monitors is running: its flag is set and its polling task has not ended.
C37_ManagerRunningMeansAll ==
    manager_is_running(loop)
        => \A m \in Monitors : loop._running[m] /\ loop.task[m] \in {"ready", "sleep", "tick"}

\* C38: in every state the ticks reach, a Job that is PENDING or RUNNING has
\* no sibling in a terminal status (Training TRAINED or FAILED, Inference or
\* Evaluation COMPLETED or FAILED) and no Model of its Training exists.
C38_TerminalSiblingTerminalJob ==
    \A id \in DOMAIN jobs :
        jobs[id].status \in {"PENDING", "RUNNING"}
            => /\ id \in DOMAIN training
                      => /\ training[id].status \notin {"TRAINED", "FAILED"}
                         /\ get_by_training_id(model, id) = {}
               /\ id \in DOMAIN inference
                      => inference[id].status \notin {"COMPLETED", "FAILED"}
               /\ id \in DOMAIN evaluation
                      => evaluation[id].status \notin {"COMPLETED", "FAILED"}

\* a completion handler has failed for a RUNNING job that has its sibling, and
\* the job of another sibling is terminal together with that sibling
C38_Witness ==
    /\ last.outcome = "failed"
    /\ last.new_status = "COMPLETED"
    /\ last.id \in DOMAIN inference \cup DOMAIN training \cup DOMAIN evaluation
    /\ jobs[last.id].status = "RUNNING"
    /\ \E id \in DOMAIN training :
           training[id].status = "TRAINED" /\ jobs[id].status = "COMPLETED"

====
